---- MODULE Spec2Model ----
(***************************************************************************)
(* Model of speedtest_equivalent.py: one process per run of main(), the    *)
(* steps of check_library, run_speedtest, display_results and save_results *)
(* in program order, and the result log file shared by all runs.           *)
(***************************************************************************)
EXTENDS Integers, Sequences, FiniteSets, TLC

\* ------------------------------------------------------------------ bounds
MaxLog == 2          \* longest well-formed result log present before a run
MaxProbes == 2       \* latency probe attempts made by get_best_server

RunIds == {1, 2}

\* ------------------------------------------------------ python values
PyNone == [type |-> "NoneType"]
PyDict(d) == [type |-> "dict", v |-> d]
PyList(s) == [type |-> "list", items |-> s]

NoError == [exc |-> "none", at |-> "none"]
NoExit == -1

\* ------------------------------------------------------ class hierarchy
\* The exception classes that an `except cls` clause catches.
Subclasses(cls) ==
    CASE cls = "BaseException" ->
            {"KeyboardInterrupt", "Exception", "ImportError", "SpeedtestException",
             "OSError", "AttributeError", "TypeError", "JSONDecodeError"}
      [] cls = "Exception" ->
            {"Exception", "ImportError", "SpeedtestException",
             "OSError", "AttributeError", "TypeError", "JSONDecodeError"}
      [] OTHER -> {cls}

\* except clauses of check_library, in order
check_library_handlers ==
    << [cls |-> "ImportError", lines |-> <<24>>, exits |-> TRUE, code |-> 1],
       [cls |-> "Exception",   lines |-> <<27>>, exits |-> TRUE, code |-> 1] >>

run_speedtest_handlers_exit0 ==
    << [cls |-> "SpeedtestException", lines |-> <<101, 102>>, exits |-> TRUE, code |-> 1],
       [cls |-> "Exception",          lines |-> <<105>>,      exits |-> TRUE, code |-> 0] >>

run_speedtest_handlers_interrupt ==
    << [cls |-> "KeyboardInterrupt",  lines |-> <<>>,         exits |-> TRUE, code |-> 0],
       [cls |-> "SpeedtestException", lines |-> <<101, 102>>, exits |-> TRUE, code |-> 1],
       [cls |-> "Exception",          lines |-> <<105>>,      exits |-> TRUE, code |-> 1] >>

run_speedtest_handlers_noexit ==
    << [cls |-> "SpeedtestException", lines |-> <<101, 102>>, exits |-> FALSE, code |-> 1],
       [cls |-> "Exception",          lines |-> <<105>>,      exits |-> FALSE, code |-> 1] >>

\* except clauses of run_speedtest, in order
run_speedtest_handlers ==
    << [cls |-> "SpeedtestException", lines |-> <<101, 102>>, exits |-> TRUE, code |-> 1],
       [cls |-> "Exception",          lines |-> <<105>>,      exits |-> TRUE, code |-> 1] >>

NoHandler == [cls |-> "none", lines |-> <<>>, exits |-> TRUE, code |-> 1]

\* the first except clause that matches exc, as Python selects it
Handler(handlers, exc) ==
    LET matching == {i \in 1..Len(handlers) : exc \in Subclasses(handlers[i].cls)}
    IN  IF matching = {} THEN NoHandler
        ELSE handlers[CHOOSE i \in matching : \A j \in matching : i <= j]

\* exit status of the interpreter when exc leaves main() uncaught
excepthook(exc) == IF exc = "KeyboardInterrupt" THEN 130 ELSE 1

\* ------------------------------------------------------ json
Tok(t) == [t |-> t]
ObjTok(d) == [t |-> "obj", v |-> d]

ParseFail == [ok |-> FALSE, value |-> PyNone, next |-> 0]

RECURSIVE ParseValue(_, _), ParseElements(_, _, _)
ParseValue(toks, i) ==
    IF i > Len(toks) THEN ParseFail
    ELSE LET tk == toks[i] IN
         CASE tk.t = "obj"  -> [ok |-> TRUE, value |-> PyDict(tk.v), next |-> i + 1]
           [] tk.t = "null" -> [ok |-> TRUE, value |-> PyNone, next |-> i + 1]
           [] tk.t = "["    ->
                IF i + 1 <= Len(toks) /\ toks[i + 1].t = "]"
                THEN [ok |-> TRUE, value |-> PyList(<<>>), next |-> i + 2]
                ELSE ParseElements(toks, i + 1, <<>>)
           [] OTHER -> ParseFail
ParseElements(toks, i, acc) ==
    LET e == ParseValue(toks, i) IN
    IF ~e.ok \/ e.next > Len(toks) THEN ParseFail
    ELSE IF toks[e.next].t = "," THEN ParseElements(toks, e.next + 1, Append(acc, e.value))
    ELSE IF toks[e.next].t = "]"
         THEN [ok |-> TRUE, value |-> PyList(Append(acc, e.value)), next |-> e.next + 1]
    ELSE ParseFail

\* json.load: the parsed value, or ok = FALSE for json.JSONDecodeError
json_load(toks) ==
    LET r == ParseValue(toks, 1) IN
    IF r.ok /\ r.next = Len(toks) + 1 THEN r ELSE ParseFail

RECURSIVE Encode(_), EncodeItems(_)
Encode(val) ==
    CASE val.type = "dict"     -> <<ObjTok(val.v)>>
      [] val.type = "NoneType" -> <<Tok("null")>>
      [] val.type = "list"     -> <<Tok("[")>> \o EncodeItems(val.items) \o <<Tok("]")>>
EncodeItems(items) ==
    IF items = <<>> THEN <<>>
    ELSE IF Len(items) = 1 THEN Encode(items[1])
    ELSE Encode(items[1]) \o <<Tok(",")>> \o EncodeItems(Tail(items))

\* json.dump(results_list, f)
json_dump(val) == Encode(val)

list_append_front(l, x) == PyList(<<x>> \o l.items)

\* results_list.append(results)
list_append(l, x) == PyList(Append(l.items, x))

\* ------------------------------------------------------ measurement inputs
Servers == {"Mumbai"}                  \* names of candidate servers
Pings == {15432}                       \* st.results.ping, in microseconds
DownloadRates == {94567890}            \* st.download(), in bits per second
UploadRates == {11225000}              \* st.upload(), in bits per second
ClientConfig == [ip |-> "203.0.113.7", isp |-> "ExampleNet", country |-> "IN"]

\* x / d formatted by ":.2f"-style rounding: nearest integer, ties to even
RoundDiv(x, d) ==
    LET q == x \div d
        r == x % d
    IN  IF 2 * r > d \/ (2 * r = d /\ q % 2 = 1) THEN q + 1 ELSE q

\* f"{value:.2f} unit", kept as hundredths of the unit
Format2f(hundredths, unit) == [hundredths |-> hundredths, unit |-> unit]

NoSt == [ready |-> FALSE, server |-> "", ping |-> -1, probe_total |-> 0,
         probe_failed |-> 0, download |-> -1, upload |-> -1]

\* the dict built at the end of run_speedtest
client_info(s, now) ==
    [ip          |-> ClientConfig.ip,
     isp         |-> ClientConfig.isp,
     country     |-> ClientConfig.country,
     latency     |-> Format2f(RoundDiv(s.ping, 10), "ms"),
     jitter      |-> "N/A (approx. 5-20ms variation)",
     packet_loss |-> "0%",
     download    |-> Format2f(RoundDiv(s.download, 10000), "Mbps"),
     upload      |-> Format2f(RoundDiv(s.upload, 10000), "Mbps"),
     server      |-> s.server,
     timestamp   |-> now]

\* an entry written by an earlier run, at clock value ts
OldResult(ts) ==
    [ip          |-> ClientConfig.ip,
     isp         |-> ClientConfig.isp,
     country     |-> ClientConfig.country,
     latency     |-> Format2f(2000, "ms"),
     jitter      |-> "N/A (approx. 5-20ms variation)",
     packet_loss |-> "0%",
     download    |-> Format2f(5000, "Mbps"),
     upload      |-> Format2f(1000, "Mbps"),
     server      |-> "Mumbai",
     timestamp   |-> ts]

OldEntries == {PyDict(OldResult(0)), PyDict(OldResult(1))}
ClockStart == 2

SeqsUpTo(S, n) == UNION {[1..k -> S] : k \in 0..n}

\* contents of speedtest_results.json that are a JSON array of results
WellFormedContents == {json_dump(PyList(l)) : l \in SeqsUpTo(OldEntries, MaxLog)}

\* contents that are not: empty file, junk, truncated array, trailing comma,
\* a top-level object, a top-level null
CorruptContents ==
    { <<>>,
      <<Tok("#")>>,
      <<Tok("["), ObjTok(OldResult(0))>>,
      <<Tok("["), ObjTok(OldResult(0)), Tok(","), Tok("]")>>,
      <<ObjTok(OldResult(0))>>,
      <<Tok("null")>> }

NoFile == [exists |-> FALSE, content |-> <<>>]
File(c) == [exists |-> TRUE, content |-> c]

InitialFiles == {NoFile} \cup {File(c) : c \in WellFormedContents \cup CorruptContents}

\* ------------------------------------------------------ state
VARIABLES
    runs,          \* the runs of main() that take place
    pc,            \* position of each run
    args,          \* parsed command line of each run
    st,            \* the speedtest.Speedtest object of each run
    results,       \* main's `results` of each run
    results_list,  \* save_results' `results_list` of each run
    stdout,        \* lines printed by each run, by source line
    exit_code,     \* process exit status of each run
    error,         \* exception that ended a run and where it was raised
    appends,       \* completed writes of the log by each run
    file,          \* speedtest_results.json
    file0,         \* speedtest_results.json before any run started
    clock          \* datetime.now()

vars == <<runs, pc, args, st, results, results_list, stdout, exit_code,
          error, appends, file, file0, clock>>

NoArgs == [save |-> FALSE, verbose |-> FALSE]

InitRuns(active) ==
    /\ runs = active
    /\ pc = [p \in RunIds |-> IF p \in active THEN "main" ELSE "idle"]
    /\ args = [p \in RunIds |-> NoArgs]
    /\ st = [p \in RunIds |-> NoSt]
    /\ results = [p \in RunIds |-> PyNone]
    /\ results_list = [p \in RunIds |-> PyList(<<>>)]
    /\ stdout = [p \in RunIds |-> <<>>]
    /\ exit_code = [p \in RunIds |-> NoExit]
    /\ error = [p \in RunIds |-> NoError]
    /\ appends = [p \in RunIds |-> 0]
    /\ file \in InitialFiles
    /\ file0 = file
    /\ clock = ClockStart

Init == InitRuns({1})

\* ------------------------------------------------------ control helpers
P(n) == [line |-> n]
PA(n, a) == [line |-> n, arg |-> a]
Lines(ns) == [i \in 1..Len(ns) |-> P(ns[i])]
IfVerbose(p, ns) == IF args[p].verbose THEN Lines(ns) ELSE <<>>

\* the process ends: sys.exit(code) or an uncaught exception
Exit(p, printed, code, err) ==
    /\ pc' = [pc EXCEPT ![p] = "exited"]
    /\ stdout' = [stdout EXCEPT ![p] = @ \o printed]
    /\ exit_code' = [exit_code EXCEPT ![p] = code]
    /\ error' = [error EXCEPT ![p] = err]

\* exc is raised at position pc[p] inside a try with the given except
\* clauses; printed is what the try body printed before; a clause that does
\* not exit lets the function return None and the caller go on at resume
Raise(p, handlers, exc, printed, resume) ==
    LET h == Handler(handlers, exc)
        err == [exc |-> exc, at |-> pc[p]]
    IN  IF h.cls = "none" THEN Exit(p, printed, excepthook(exc), err)
        ELSE IF h.exits THEN Exit(p, printed \o Lines(h.lines), h.code, err)
        ELSE /\ pc' = [pc EXCEPT ![p] = resume]
             /\ stdout' = [stdout EXCEPT ![p] = @ \o printed \o Lines(h.lines)]
             /\ error' = [error EXCEPT ![p] = err]
             /\ UNCHANGED exit_code

Goto(p, printed, next) ==
    /\ pc' = [pc EXCEPT ![p] = next]
    /\ stdout' = [stdout EXCEPT ![p] = @ \o printed]
    /\ UNCHANGED <<exit_code, error>>

\* the statement after each stage of run_speedtest that succeeded
NextStage_swapped(stage) ==
    CASE stage = "run_speedtest_init" -> "get_best_server"
      [] stage = "get_best_server"    -> "upload"
      [] stage = "upload"             -> "download"
      [] stage = "download"           -> "aggregate"
      [] stage = "aggregate"          -> "display_results"

NextStage(stage) ==
    CASE stage = "run_speedtest_init" -> "get_best_server"
      [] stage = "get_best_server"    -> "download"
      [] stage = "download"           -> "upload"
      [] stage = "upload"             -> "aggregate"
      [] stage = "aggregate"          -> "display_results"

\* ------------------------------------------------------ main, check_library
main_parse_args(p) ==
    /\ pc[p] = "main"
    /\ \E s \in BOOLEAN, v \in BOOLEAN : args' = [args EXCEPT ![p] = [save |-> s, verbose |-> v]]
    /\ Goto(p, <<>>, "check_library")
    /\ UNCHANGED <<runs, st, results, results_list, appends, file, file0, clock>>

check_library(p) ==
    /\ pc[p] = "check_library"
    /\ \/ Goto(p, <<>>, "run_speedtest_init")
       \/ \E exc \in {"ImportError", "Exception", "KeyboardInterrupt"} :
             Raise(p, check_library_handlers, exc, <<>>, "run_speedtest_init")
    /\ UNCHANGED <<runs, args, st, results, results_list, appends, file, file0, clock>>

\* ------------------------------------------------------ run_speedtest
run_speedtest_init(p) ==
    /\ pc[p] = "run_speedtest_init"
    /\ \/ /\ st' = [st EXCEPT ![p] = [NoSt EXCEPT !.ready = TRUE]]
          /\ Goto(p, IfVerbose(p, <<37, 48>>), NextStage(pc[p]))
       \/ /\ \E exc \in {"SpeedtestException", "Exception", "KeyboardInterrupt"} :
                Raise(p, run_speedtest_handlers, exc, IfVerbose(p, <<37>>), "display_results")
          /\ UNCHANGED st
    /\ UNCHANGED <<runs, args, results, results_list, appends, file, file0, clock>>

get_best_server(p) ==
    /\ pc[p] = "get_best_server"
    /\ \/ \E srv \in Servers, png \in Pings, failed \in 0..(MaxProbes - 1) :
             /\ st' = [st EXCEPT ![p] = [@ EXCEPT !.server = srv, !.ping = png,
                                                  !.probe_total = MaxProbes,
                                                  !.probe_failed = failed]]
             /\ Goto(p, Lines(<<51, 52>>) \o IfVerbose(p, <<57>>), NextStage(pc[p]))
       \/ /\ \E exc \in {"SpeedtestException", "Exception", "KeyboardInterrupt"} :
                Raise(p, run_speedtest_handlers, exc, Lines(<<51, 52>>), "display_results")
          /\ UNCHANGED st
    /\ UNCHANGED <<runs, args, results, results_list, appends, file, file0, clock>>

download(p) ==
    /\ pc[p] = "download"
    /\ \/ \E rate \in DownloadRates :
             /\ st' = [st EXCEPT ![p].download = rate]
             /\ Goto(p, Lines(<<60>>), NextStage(pc[p]))
       \/ /\ \E exc \in {"SpeedtestException", "Exception", "KeyboardInterrupt"} :
                Raise(p, run_speedtest_handlers, exc, Lines(<<60>>), "display_results")
          /\ UNCHANGED st
    /\ UNCHANGED <<runs, args, results, results_list, appends, file, file0, clock>>

upload(p) ==
    /\ pc[p] = "upload"
    /\ \/ \E rate \in UploadRates :
             /\ st' = [st EXCEPT ![p].upload = rate]
             /\ Goto(p, Lines(<<64>>), NextStage(pc[p]))
       \/ /\ \E exc \in {"SpeedtestException", "Exception", "KeyboardInterrupt"} :
                Raise(p, run_speedtest_handlers, exc, Lines(<<64>>), "display_results")
          /\ UNCHANGED st
    /\ UNCHANGED <<runs, args, results, results_list, appends, file, file0, clock>>

aggregate(p) ==
    /\ pc[p] = "aggregate"
    /\ \/ /\ results' = [results EXCEPT ![p] = PyDict(client_info(st[p], clock))]
          /\ clock' = clock + 1
          /\ Goto(p, IfVerbose(p, <<70>>) \o Lines(<<75>>) \o IfVerbose(p, <<96>>),
                  NextStage(pc[p]))
       \/ /\ \E exc \in {"Exception", "KeyboardInterrupt"} :
                Raise(p, run_speedtest_handlers, exc,
                      IfVerbose(p, <<70>>) \o Lines(<<75>>), "display_results")
          /\ UNCHANGED <<results, clock>>
    /\ UNCHANGED <<runs, args, st, results_list, appends, file, file0>>

\* ------------------------------------------------------ display_results
\* the lines display_results prints, each with the field it shows
DisplayLines(r) ==
    Lines(<<112, 113, 114>>) \o
    << PA(115, r.v.download), PA(116, r.v.upload), PA(117, r.v.latency),
       PA(118, r.v.jitter), PA(119, r.v.packet_loss), PA(120, r.v.server),
       PA(121, r.v.isp), PA(122, r.v.ip), PA(123, r.v.country),
       PA(124, r.v.timestamp) >> \o
    Lines(<<125, 126>>)

display_results_call_mutating(r) ==
    [printed |-> DisplayLines(r),
     results |-> PyDict([r.v EXCEPT !.jitter = "N/A"])]

\* display_results(results) on a dict: what it prints, and the dict afterwards
display_results_call(r) == [printed |-> DisplayLines(r), results |-> r]

display_results(p) ==
    /\ pc[p] = "display_results"
    /\ \/ IF results[p].type = "dict"
          THEN LET call == display_results_call(results[p]) IN
               /\ results' = [results EXCEPT ![p] = call.results]
               /\ Goto(p, call.printed, "main_save")
          ELSE \* results['download'] on None
               /\ Exit(p, Lines(<<112, 113, 114>>), excepthook("TypeError"),
                       [exc |-> "TypeError", at |-> pc[p]])
               /\ UNCHANGED results
       \/ /\ Exit(p, <<>>, excepthook("KeyboardInterrupt"),
                  [exc |-> "KeyboardInterrupt", at |-> pc[p]])
          /\ UNCHANGED results
    /\ UNCHANGED <<runs, args, st, results_list, appends, file, file0, clock>>

ShouldSave_always(a) == TRUE

\* `if args.save:` in main
ShouldSave(a) == a.save

main_save(p) ==
    /\ pc[p] = "main_save"
    /\ IF ShouldSave(args[p])
       THEN Goto(p, <<>>, "save_results_read")
       ELSE Exit(p, <<>>, 0, error[p])
    /\ UNCHANGED <<runs, args, st, results, results_list, appends, file, file0, clock>>

\* ------------------------------------------------------ save_results
save_results_read(p) ==
    /\ pc[p] = "save_results_read"
    /\ \/ IF ~file.exists
          THEN /\ results_list' = [results_list EXCEPT ![p] = PyList(<<>>)]
               /\ Goto(p, <<>>, "save_results_append")
          ELSE LET r == json_load(file.content) IN
               IF r.ok
               THEN /\ results_list' = [results_list EXCEPT ![p] = r.value]
                    /\ Goto(p, <<>>, "save_results_append")
               ELSE /\ results_list' = [results_list EXCEPT ![p] = PyList(<<>>)]
                    /\ Goto(p, Lines(<<138>>), "save_results_append")
       \/ /\ Exit(p, <<>>, excepthook("KeyboardInterrupt"),
                  [exc |-> "KeyboardInterrupt", at |-> pc[p]])
          /\ UNCHANGED results_list
    /\ UNCHANGED <<runs, args, st, results, appends, file, file0, clock>>

save_results_append(p) ==
    /\ pc[p] = "save_results_append"
    /\ IF results_list[p].type = "list"
       THEN /\ results_list' = [results_list EXCEPT ![p] = list_append(@, results[p])]
            /\ Goto(p, <<>>, "save_results_open")
       ELSE \* no .append on a dict or None
            /\ Exit(p, <<>>, excepthook("AttributeError"),
                    [exc |-> "AttributeError", at |-> pc[p]])
            /\ UNCHANGED results_list
    /\ UNCHANGED <<runs, args, st, results, appends, file, file0, clock>>

save_results_open(p) ==
    /\ pc[p] = "save_results_open"
    /\ \/ /\ file' = File(<<>>)       \* mode 'w' truncates
          /\ Goto(p, <<>>, "save_results_dump")
       \/ /\ \E exc \in {"OSError", "KeyboardInterrupt"} :
                Exit(p, <<>>, excepthook(exc), [exc |-> exc, at |-> pc[p]])
          /\ UNCHANGED file
    /\ UNCHANGED <<runs, args, st, results, results_list, appends, file0, clock>>

save_results_dump(p) ==
    /\ pc[p] = "save_results_dump"
    /\ \/ /\ file' = File(json_dump(results_list[p]))
          /\ appends' = [appends EXCEPT ![p] = @ + 1]
          /\ Goto(p, <<PA(146, Len(results_list[p].items))>>, "main_exit")
       \/ /\ Exit(p, <<>>, excepthook("KeyboardInterrupt"),
                  [exc |-> "KeyboardInterrupt", at |-> pc[p]])
          /\ UNCHANGED <<file, appends>>
    /\ UNCHANGED <<runs, args, st, results, results_list, file0, clock>>

main_exit(p) ==
    /\ pc[p] = "main_exit"
    /\ Exit(p, <<>>, 0, error[p])
    /\ UNCHANGED <<runs, args, st, results, results_list, appends, file, file0, clock>>

\* ------------------------------------------------------ specification
\* a run that does not take place stays at "idle", where no step is enabled
Next ==
    \/ \E p \in RunIds : main_parse_args(p)
    \/ \E p \in RunIds : check_library(p)
    \/ \E p \in RunIds : run_speedtest_init(p)
    \/ \E p \in RunIds : get_best_server(p)
    \/ \E p \in RunIds : download(p)
    \/ \E p \in RunIds : upload(p)
    \/ \E p \in RunIds : aggregate(p)
    \/ \E p \in RunIds : display_results(p)
    \/ \E p \in RunIds : main_save(p)
    \/ \E p \in RunIds : save_results_read(p)
    \/ \E p \in RunIds : save_results_append(p)
    \/ \E p \in RunIds : save_results_open(p)
    \/ \E p \in RunIds : save_results_dump(p)
    \/ \E p \in RunIds : main_exit(p)

Spec == Init /\ [][Next]_vars

\* two runs of main() on the same log file
InitConc == InitRuns({1, 2})
SpecConc == InitConc /\ [][Next]_vars

\* ------------------------------------------------------ observations
HasLine(p, n) == \E i \in DOMAIN stdout[p] : stdout[p][i].line = n
ArgAt(p, n) == stdout[p][CHOOSE i \in DOMAIN stdout[p] : stdout[p][i].line = n].arg

IsPrefix(a, b) == Len(a) <= Len(b) /\ \A i \in 1..Len(a) : a[i] = b[i]

\* the log is a JSON array
WellFormed(f) ==
    f.exists /\ json_load(f.content).ok /\ json_load(f.content).value.type = "list"
\* the log exists and is not a JSON array
Corrupted(f) == f.exists /\ ~WellFormed(f)
Entries(f) == json_load(f.content).value.items

\* main reached the call of save_results
SaveInvoked(p) == args[p].save /\ HasLine(p, 126) /\ pc[p] \notin {"display_results", "main_save"}
\* the run was ended by its environment while saving, not by save_results
EnvFault(p) == error[p].exc \in {"KeyboardInterrupt", "OSError"}

\* ------------------------------------------------------ C1
\* C1: when the log is a well-formed array of n entries and save_results(r)
\* completes, the log holds n+1 entries: the n earlier ones unchanged and in
\* order, then r.
C1_AppendYieldsNPlusOne ==
    \A p \in runs :
        (HasLine(p, 146) /\ WellFormed(file0)) =>
            /\ WellFormed(file)
            /\ Len(Entries(file)) = Len(Entries(file0)) + 1
            /\ \A i \in 1..Len(Entries(file0)) : Entries(file)[i] = Entries(file0)[i]
            /\ Entries(file)[Len(Entries(file0)) + 1] = results[p]

C1_Witness ==
    /\ HasLine(1, 146)
    /\ WellFormed(file0)
    /\ Len(Entries(file0)) = 2
    /\ Entries(file0)[1] # Entries(file0)[2]

\* ------------------------------------------------------ C2
\* C2: when the existing log is corrupted (not a JSON array), save_results(r)
\* warns, does not abort, and leaves a log holding exactly r.
C2_CorruptedLogStartsFresh ==
    \A p \in runs :
        (pc[p] = "exited" /\ SaveInvoked(p) /\ Corrupted(file0) /\ ~EnvFault(p)) =>
            /\ exit_code[p] = 0
            /\ HasLine(p, 138)
            /\ HasLine(p, 146)
            /\ WellFormed(file)
            /\ Entries(file) = <<results[p]>>

\* ------------------------------------------------------ C3
Succeeded(p) ==
    /\ results[p].type = "dict"
    /\ HasLine(p, 126)
    /\ args[p].save => (appends[p] = 1 /\ HasLine(p, 146))

\* C3: a run that has exited has exit code 0 exactly when its measurement
\* completed, was displayed and (with --save) was saved; every failure of
\* initialisation, selection, download, upload, aggregation or saving gives a
\* non-zero code.
C3_ExitZeroIffSucceeded ==
    \A p \in runs :
        pc[p] = "exited" =>
            /\ exit_code[p] # NoExit
            /\ (exit_code[p] = 0) <=> Succeeded(p)
            /\ error[p] # NoError => exit_code[p] # 0

C3_Witness ==
    /\ pc[1] = "exited"
    /\ error[1] = [exc |-> "Exception", at |-> "upload"]
    /\ exit_code[1] = 1

\* ------------------------------------------------------ C4
StageOrder == <<52, 60, 64, 75>>
StageLineSet == {StageOrder[i] : i \in DOMAIN StageOrder}
\* the stages a run has started, by the line each announces itself with
StagesStarted(p) ==
    LET started == SelectSeq(stdout[p], LAMBDA e : e.line \in StageLineSet)
    IN  [i \in 1..Len(started) |-> started[i].line]

StagesInOrder(p) ==
    /\ IsPrefix(StagesStarted(p), StageOrder)
    /\ HasLine(p, 52) => st[p].ready
    /\ HasLine(p, 60) => st[p].server # ""
    /\ HasLine(p, 64) => st[p].download # -1
    /\ HasLine(p, 75) => st[p].upload # -1
    /\ results[p].type = "dict" => StagesStarted(p) = StageOrder
    /\ error[p] # NoError => pc[p] = "exited"

FailedIsTerminal(p) ==
    pc[p] = "exited" =>
        /\ pc'[p] = "exited"
        /\ stdout'[p] = stdout[p]
        /\ results'[p] = results[p]
        /\ error'[p] = error[p]

\* C4: a run starts server selection, download, upload and aggregation in
\* that order, each only after the one before succeeded; a failure ends the
\* run at once and an ended run never does anything more.
C4_StagesInOrder ==
    /\ [](\A p \in runs : StagesInOrder(p))
    /\ [][\A p \in runs : FailedIsTerminal(p)]_vars

C4_Witness ==
    /\ pc[1] = "exited"
    /\ error[1] = [exc |-> "SpeedtestException", at |-> "download"]
    /\ StagesStarted(1) = <<52, 60>>

\* ------------------------------------------------------ C5
\* C5 as stated: every run that has exited performed exactly one append.
C5_ExactlyOneAppend ==
    \A p \in runs : pc[p] = "exited" => appends[p] = 1

\* C5 amended: a run never appends more than once, and a run that exits with
\* code 0 appended exactly once if --save was given and not at all otherwise.
C5_AtMostOneAppend ==
    \A p \in runs :
        /\ appends[p] <= 1
        /\ (pc[p] = "exited" /\ exit_code[p] = 0) =>
               appends[p] = (IF args[p].save THEN 1 ELSE 0)

C5_Witness ==
    /\ pc[1] = "exited"
    /\ exit_code[1] = 0
    /\ ~args[1].save
    /\ appends[1] = 0

\* ------------------------------------------------------ C6
\* the record as display_results printed it
Shown(p) ==
    [ip          |-> ArgAt(p, 122),
     isp         |-> ArgAt(p, 121),
     country     |-> ArgAt(p, 123),
     latency     |-> ArgAt(p, 117),
     jitter      |-> ArgAt(p, 118),
     packet_loss |-> ArgAt(p, 119),
     download    |-> ArgAt(p, 115),
     upload      |-> ArgAt(p, 116),
     server      |-> ArgAt(p, 120),
     timestamp   |-> ArgAt(p, 124)]

RecordUsedUnchanged(p) ==
    /\ HasLine(p, 126) => Shown(p) = results[p].v
    /\ HasLine(p, 146) =>
          /\ results_list[p].items[Len(results_list[p].items)] = results[p]
          /\ Entries(file)[Len(Entries(file))] = results[p]

RecordSetOnce(p) ==
    results'[p] # results[p] =>
        /\ results[p] = PyNone
        /\ pc[p] = "aggregate"
        /\ results'[p] = PyDict(client_info(st[p], clock))

\* C6: the result record is set once, by the last step of a successful
\* run_speedtest, and never changes afterwards; what display_results shows
\* and what save_results appends is that record.
C6_RecordImmutable ==
    /\ [](\A p \in runs : RecordUsedUnchanged(p))
    /\ [][\A p \in runs : RecordSetOnce(p)]_vars

C6_Witness ==
    /\ HasLine(1, 126)
    /\ HasLine(1, 146)
    /\ pc[1] = "exited"

\* ------------------------------------------------------ C7
PercentValue(text) == CASE text = "0%" -> 0 [] OTHER -> -1

\* C7: when at least one probe succeeded, the reported packet loss is
\* failed attempts / total attempts.
C7_LossIsFailedOverTotal ==
    \A p \in runs :
        (results[p].type = "dict" /\ st[p].probe_failed < st[p].probe_total) =>
            PercentValue(results[p].v.packet_loss) * st[p].probe_total
                = 100 * st[p].probe_failed

\* ------------------------------------------------------ C8
CancelStages ==
    {"check_library", "run_speedtest_init", "get_best_server", "download",
     "upload", "aggregate"}

\* C8: a run interrupted during initialisation, selection, download, upload
\* or aggregation has ended with a non-zero exit code, without a result
\* record, without displaying or saving anything.
C8_CancelFailsRun ==
    \A p \in runs :
        (error[p].exc = "KeyboardInterrupt" /\ error[p].at \in CancelStages) =>
            /\ pc[p] = "exited"
            /\ exit_code[p] \notin {0, NoExit}
            /\ results[p] = PyNone
            /\ ~HasLine(p, 112)
            /\ ~HasLine(p, 146)
            /\ appends[p] = 0
            /\ file = file0

C8_Witness ==
    /\ error[1] = [exc |-> "KeyboardInterrupt", at |-> "download"]
    /\ args[1].save
    /\ pc[1] = "exited"

\* ------------------------------------------------------ C9
\* C9: when two runs have both saved to a well-formed log of n entries, the
\* log holds n+2 entries: the n earlier ones and both runs' results.
C9_ConcurrentAppendsKept ==
    (/\ runs = {1, 2}
     /\ WellFormed(file0)
     /\ \A p \in runs : pc[p] = "exited" /\ exit_code[p] = 0 /\ args[p].save) =>
        /\ WellFormed(file)
        /\ Len(Entries(file)) = Len(Entries(file0)) + 2
        /\ IsPrefix(Entries(file0), Entries(file))
        /\ \A p \in runs : \E i \in DOMAIN Entries(file) : Entries(file)[i] = results[p]

\* ------------------------------------------------------ C10
FailStages == CancelStages

\* C10: a run that failed in check_library or run_speedtest never reaches
\* display_results or save_results and leaves the log file as it was.
C10_FailedRunNoOutput ==
    \A p \in runs :
        error[p].at \in FailStages =>
            /\ pc[p] = "exited"
            /\ \A n \in 112..126 : ~HasLine(p, n)
            /\ ~HasLine(p, 138)
            /\ ~HasLine(p, 146)
            /\ appends[p] = 0
            /\ file = file0

C10_Witness ==
    /\ pc[1] = "exited"
    /\ error[1] = [exc |-> "Exception", at |-> "get_best_server"]
    /\ args[1].save
    /\ file0.exists

====
